---- MODULE Spec2Model ----
(***************************************************************************)
(* A model of the redigo key-value engine: the in-memory store and its     *)
(* expiration map, the three reverse indexes, the AOF command buffer, the  *)
(* AOF / snapshot / index-dump files, the background flusher and sweeper,    *)
(* and start-up recovery.                                                  *)
(*                                                                         *)
(* Go values are records [type, value] whose type is the Go dynamic type.  *)
(* A float64 is carried as a whole number of tenths (15 is 1.5).           *)
(***************************************************************************)
EXTENDS Integers, Sequences, FiniteSets, TLC

\* ------------------------------------------------------------------ bounds
MaxSteps == 5

\* ------------------------------------------------------------------ inputs
Keys == {"a", "aa"}

StringValue(s) == [type |-> "string", value |-> s]
IntValue(i) == [type |-> "int", value |-> i]
BoolValue(b) == [type |-> "bool", value |-> b]
FloatValue(tenths) == [type |-> "float64", value |-> tenths]
\* types.RedigoString: a named string type, the value the TCP shell passes
RedigoString(s) == [type |-> "RedigoString", value |-> s]

Values == {StringValue("v"), IntValue(1), RedigoString("x")}
Ttls == {0, 1}
ExpirySeconds == {-1, 0, 1}
\* how far the clock moves between two steps
Elapsed == {1, 2}

\* the zero types.CommandValue{} of DELETE records, and "no value" in replies
NoValue == [type |-> "", value |-> ""]

EmptyMap == [x \in {} |-> {}]

\* ------------------------------------------------------------------ state
VARIABLES
    store,              \* database.store: key -> Go value
    expirationKeys,     \* database.expirationKeys: key -> absolute deadline
    valueIndex,         \* database.valueIndex.Entries: string -> set of keys
    prefixIndex,        \* database.prefixIndex.Entries
    suffixIndex,        \* database.suffixIndex.Entries
    aofCommandsBuffer,  \* database.aofCommandsBuffer
    sweepPending,       \* the sweeper's DELETE commands not yet appended
    aofFile,            \* appendonly.aof: sequence of JSON lines
    snapshotFile,       \* snapshot.redigo.json: key -> JSON value
    indexFile,          \* indexes.redigo.json: <<>> when missing, else <<dump>>
    now,                \* time.Now().Unix()
    reply,              \* the last step and, for a Command API call, what it returned
    steps,              \* the number of steps taken so far
    storeMutex,         \* database.storeMutex: its holder, "" when free
    indexMutex,         \* database.indexMutex: [writer, readers]
    aofCommandsBufferMutex, \* database.aofCommandsBufferMutex: its holder
    aofMutex,           \* database.aofMutex: its holder
    goroutines,         \* goroutine -> where it stands in its call, and its locals
    tempSnapshotFile    \* snapshot.redigo.json.tmp: <<>> when missing, else <<data>>

vars == <<store, expirationKeys, valueIndex, prefixIndex, suffixIndex,
          aofCommandsBuffer, sweepPending, aofFile, snapshotFile,
          indexFile, now, reply, steps, storeMutex, indexMutex,
          aofCommandsBufferMutex, aofMutex, goroutines, tempSnapshotFile>>

memory == <<store, expirationKeys, valueIndex, prefixIndex, suffixIndex>>
indexes == <<valueIndex, prefixIndex, suffixIndex>>
disk == <<aofFile, snapshotFile, indexFile>>
mutexes == <<storeMutex, indexMutex, aofCommandsBufferMutex, aofMutex>>

\* ------------------------------------------------------------------ maps
MapSet(m, k, v) == [x \in DOMAIN m \cup {k} |-> IF x = k THEN v ELSE m[x]]
MapDelete(m, k) == [x \in DOMAIN m \ {k} |-> m[x]]

\* ------------------------------------------------------------------ stringification
Digits == <<"0", "1", "2", "3", "4", "5", "6", "7", "8", "9">>

RECURSIVE NatToString(_)
NatToString(n) ==
    IF n < 10 THEN Digits[n + 1]
    ELSE NatToString(n \div 10) \o Digits[(n % 10) + 1]

\* fmt.Sprintf("%d", v)
FormatInt(i) == IF i < 0 THEN "-" \o NatToString(-i) ELSE NatToString(i)

\* fmt.Sprintf("%g", v) of a float64 given in tenths
FormatFloat(tenths) ==
    LET a == IF tenths < 0 THEN -tenths ELSE tenths
        sign == IF tenths < 0 THEN "-" ELSE ""
    IN IF a % 10 = 0 THEN sign \o NatToString(a \div 10)
       ELSE sign \o NatToString(a \div 10) \o "." \o Digits[(a % 10) + 1]

valueToString(value) ==
    CASE value.type = "string" -> value.value
      [] value.type = "bool" -> IF value.value THEN "true" ELSE "false"
      [] value.type = "int" -> FormatInt(value.value)
      [] value.type = "float64" -> FormatFloat(value.value)
      [] OTHER -> value.value

\* ------------------------------------------------------------------ reverse indexes
IndexAdd(entries, indexKey, key) ==
    IF indexKey \in DOMAIN entries
    THEN [entries EXCEPT ![indexKey] = @ \cup {key}]
    ELSE MapSet(entries, indexKey, {key})

\* IndexRemove that leaves an emptied entry in the map
IndexRemoveKeepingEmpty(entries, indexKey, key) ==
    IF indexKey \in DOMAIN entries
    THEN [entries EXCEPT ![indexKey] = @ \ {key}]
    ELSE entries

IndexRemove(entries, indexKey, key) ==
    IF indexKey \in DOMAIN entries
    THEN IF entries[indexKey] \ {key} = {}
         THEN MapDelete(entries, indexKey)
         ELSE [entries EXCEPT ![indexKey] = @ \ {key}]
    ELSE entries

Prefix(key, i) == SubSeq(key, 1, i)
Suffix(key, i) == SubSeq(key, i + 1, Len(key))

RECURSIVE AddPrefixes(_, _, _)
AddPrefixes(entries, key, i) ==
    IF i > Len(key) THEN entries
    ELSE AddPrefixes(IndexAdd(entries, Prefix(key, i), key), key, i + 1)

RECURSIVE AddSuffixes(_, _, _)
AddSuffixes(entries, key, i) ==
    IF i >= Len(key) THEN entries
    ELSE AddSuffixes(IndexAdd(entries, Suffix(key, i), key), key, i + 1)

RECURSIVE RemovePrefixes(_, _, _)
RemovePrefixes(entries, key, i) ==
    IF i > Len(key) THEN entries
    ELSE RemovePrefixes(IndexRemove(entries, Prefix(key, i), key), key, i + 1)

RECURSIVE RemoveSuffixes(_, _, _)
RemoveSuffixes(entries, key, i) ==
    IF i >= Len(key) THEN entries
    ELSE RemoveSuffixes(IndexRemove(entries, Suffix(key, i), key), key, i + 1)

\* the three indexes as one record
Indexes(v, p, s) == [value |-> v, prefix |-> p, suffix |-> s]

\* addToIndex that skips the suffix index
addToIndexWithoutSuffixes(idx, key, value) ==
    Indexes(IndexAdd(idx.value, valueToString(value), key),
            AddPrefixes(idx.prefix, key, 1),
            idx.suffix)

addToIndex(idx, key, value) ==
    Indexes(IndexAdd(idx.value, valueToString(value), key),
            AddPrefixes(idx.prefix, key, 1),
            AddSuffixes(idx.suffix, key, 0))

\* removeFromIndex that skips the value index
removeFromIndexKeepingValue(idx, key, value) ==
    Indexes(idx.value,
            RemovePrefixes(idx.prefix, key, 1),
            RemoveSuffixes(idx.suffix, key, 0))

removeFromIndex(idx, key, value) ==
    Indexes(IndexRemove(idx.value, valueToString(value), key),
            RemovePrefixes(idx.prefix, key, 1),
            RemoveSuffixes(idx.suffix, key, 0))

CurrentIndexes == Indexes(valueIndex, prefixIndex, suffixIndex)

SetIndexes(idx) ==
    /\ valueIndex' = idx.value
    /\ prefixIndex' = idx.prefix
    /\ suffixIndex' = idx.suffix

\* ------------------------------------------------------------------ store
\* the store and the expiration map as one record
Db(s, e) == [store |-> s, expirationKeys |-> e]

\* UnsafeRemoveKey that forgets the expiration map
UnsafeRemoveKeyFromStoreOnly(db, key) ==
    Db(MapDelete(db.store, key), db.expirationKeys)

UnsafeRemoveKey(db, key) ==
    Db(MapDelete(db.store, key), MapDelete(db.expirationKeys, key))

SafeRemoveKey(db, key) ==
    Db(MapDelete(db.store, key), MapDelete(db.expirationKeys, key))

\* ------------------------------------------------------------------ commands
SetCommand(key, valueType, rawValue, ttl, timestamp) ==
    [name |-> "SET", key |-> key,
     value |-> [type |-> valueType, value |-> rawValue],
     ttl |-> <<ttl>>, timestamp |-> timestamp]

DeleteCommand(key, timestamp) ==
    [name |-> "DELETE", key |-> key, value |-> NoValue,
     ttl |-> <<>>, timestamp |-> timestamp]

ExpireCommand(key, seconds, timestamp) ==
    [name |-> "EXPIRE", key |-> key,
     value |-> [type |-> "float64", value |-> seconds * 10],
     ttl |-> <<>>, timestamp |-> timestamp]

AddCommandsToAofBuffer(buffer, command) == Append(buffer, command)

\* ------------------------------------------------------------------ replies
\* keys is the slice a search returns, as a set
Reply(op, key, value, n, result) ==
    [op |-> op, key |-> key, value |-> value, n |-> n, result |-> result, keys |-> {}]

\* what a search for `query` returns
SearchReply(op, query, keys) ==
    [op |-> op, key |-> query, value |-> NoValue, n |-> 0, result |-> "", keys |-> keys]

\* a step of a background task or of start-up returns nothing to a client
Background(op) == Reply(op, "", NoValue, 0, "")

ApiOps == {"Set", "Get", "Delete", "SetExpiry", "GetTtl"}

SupportedTypes == {"string", "int", "bool", "float64"}

\* ------------------------------------------------------------------ Command API
CurrentDb == Db(store, expirationKeys)

\* one more call, while the model's budget of calls lasts
Budget ==
    /\ steps < MaxSteps
    /\ steps' = steps + 1

\* a call that runs from its first lock to its last unlock in one step: no
\* mutex is held before or after it, no goroutine is part-way through a call
Step ==
    /\ Budget
    /\ UNCHANGED <<mutexes, goroutines, tempSnapshotFile>>

SetDb(db) ==
    /\ store' = db.store
    /\ expirationKeys' = db.expirationKeys

\* exists that takes a key whose deadline has passed for an absent one
existsUnexpired(key) ==
    /\ key \in DOMAIN store
    /\ ~(key \in DOMAIN expirationKeys /\ now > expirationKeys[key])

\* _, exists := database.store[key]
exists(key) == key \in DOMAIN store

Set(key, value, ttl) ==
    /\ Step
    /\ IF exists(key)
       THEN /\ reply' = Reply("Set", key, value, ttl, "KeyAlreadyExists")
            /\ UNCHANGED <<memory, aofCommandsBuffer, sweepPending, disk, now>>
       ELSE /\ store' = MapSet(store, key, value)
            /\ SetIndexes(addToIndex(CurrentIndexes, key, value))
            /\ expirationKeys' = IF ttl > 0
                                 THEN MapSet(expirationKeys, key, now + ttl)
                                 ELSE MapDelete(expirationKeys, key)
            /\ IF value.type \in SupportedTypes
               THEN /\ aofCommandsBuffer' = AddCommandsToAofBuffer(aofCommandsBuffer,
                           SetCommand(key, value.type, value.value, ttl, now))
                    /\ reply' = Reply("Set", key, value, ttl, "OK")
               ELSE /\ reply' = Reply("Set", key, value, ttl, "UnsupportedValueType")
                    /\ UNCHANGED aofCommandsBuffer
            /\ UNCHANGED <<sweepPending, disk, now>>

Get(key) ==
    /\ Step
    /\ IF key \in DOMAIN expirationKeys /\ now > expirationKeys[key]
       THEN /\ SetDb(UnsafeRemoveKey(CurrentDb, key))
            /\ aofCommandsBuffer' = AddCommandsToAofBuffer(aofCommandsBuffer,
                   DeleteCommand(key, now))
            /\ reply' = Reply("Get", key, NoValue, 0, "KeyExpired")
            /\ UNCHANGED <<indexes, sweepPending, disk, now>>
       ELSE /\ reply' = IF key \in DOMAIN store
                        THEN Reply("Get", key, store[key], 0, "OK")
                        ELSE Reply("Get", key, NoValue, 0, "KeyNotFound")
            /\ UNCHANGED <<memory, aofCommandsBuffer, sweepPending, disk, now>>

\* Delete that empties the AOF file instead of buffering its DELETE command
DeleteEmptyingAof(key) ==
    /\ Step
    /\ IF ~exists(key)
       THEN /\ reply' = Reply("Delete", key, NoValue, 0, "false")
            /\ UNCHANGED <<memory, aofCommandsBuffer, sweepPending, disk, now>>
       ELSE /\ SetIndexes(removeFromIndex(CurrentIndexes, key, store[key]))
            /\ SetDb(UnsafeRemoveKey(CurrentDb, key))
            /\ aofFile' = <<>>
            /\ reply' = Reply("Delete", key, NoValue, 0, "true")
            /\ UNCHANGED <<aofCommandsBuffer, sweepPending, snapshotFile, indexFile, now>>

\* Delete that logs the DELETE command before it looks for the key
DeleteLoggingAbsentKey(key) ==
    /\ Step
    /\ aofCommandsBuffer' = AddCommandsToAofBuffer(aofCommandsBuffer,
           DeleteCommand(key, now))
    /\ IF key \in DOMAIN store
       THEN /\ SetIndexes(removeFromIndex(CurrentIndexes, key, store[key]))
            /\ SetDb(UnsafeRemoveKey(CurrentDb, key))
            /\ reply' = Reply("Delete", key, NoValue, 0, "true")
       ELSE /\ reply' = Reply("Delete", key, NoValue, 0, "false")
            /\ UNCHANGED memory
    /\ UNCHANGED <<sweepPending, disk, now>>

Delete(key) ==
    /\ Step
    /\ IF key \in DOMAIN store
       THEN /\ SetIndexes(removeFromIndex(CurrentIndexes, key, store[key]))
            /\ SetDb(UnsafeRemoveKey(CurrentDb, key))
            /\ aofCommandsBuffer' = AddCommandsToAofBuffer(aofCommandsBuffer,
                   DeleteCommand(key, now))
            /\ reply' = Reply("Delete", key, NoValue, 0, "true")
            /\ UNCHANGED <<sweepPending, disk, now>>
       ELSE /\ reply' = Reply("Delete", key, NoValue, 0, "false")
            /\ UNCHANGED <<memory, aofCommandsBuffer, sweepPending, disk, now>>

\* SetExpiry that takes a negative number of seconds for zero
SetExpiryClearingOnNegative(key, seconds) ==
    /\ Step
    /\ IF key \notin DOMAIN store
       THEN /\ reply' = Reply("SetExpiry", key, NoValue, seconds, "false")
            /\ UNCHANGED <<memory, aofCommandsBuffer, sweepPending, disk, now>>
       ELSE /\ expirationKeys' = IF seconds > 0
                                 THEN MapSet(expirationKeys, key, now + seconds)
                                 ELSE MapDelete(expirationKeys, key)
            /\ aofCommandsBuffer' = AddCommandsToAofBuffer(aofCommandsBuffer,
                   ExpireCommand(key, seconds, now))
            /\ reply' = Reply("SetExpiry", key, NoValue, seconds, "true")
            /\ UNCHANGED <<store, indexes, sweepPending, disk, now>>

SetExpiry(key, seconds) ==
    /\ Step
    /\ IF key \notin DOMAIN store \/ seconds < 0
       THEN /\ reply' = Reply("SetExpiry", key, NoValue, seconds, "false")
            /\ UNCHANGED <<memory, aofCommandsBuffer, sweepPending, disk, now>>
       ELSE /\ expirationKeys' = IF seconds > 0
                                 THEN MapSet(expirationKeys, key, now + seconds)
                                 ELSE MapDelete(expirationKeys, key)
            /\ aofCommandsBuffer' = AddCommandsToAofBuffer(aofCommandsBuffer,
                   ExpireCommand(key, seconds, now))
            /\ reply' = Reply("SetExpiry", key, NoValue, seconds, "true")
            /\ UNCHANGED <<store, indexes, sweepPending, disk, now>>

\* GetTtl that takes a key for live at the instant of its deadline
GetTtlLiveAtDeadline(key) ==
    /\ Step
    /\ IF key \notin DOMAIN store
       THEN /\ reply' = Reply("GetTtl", key, NoValue, -1, "false")
            /\ UNCHANGED <<memory, aofCommandsBuffer, sweepPending, disk, now>>
       ELSE IF key \notin DOMAIN expirationKeys
       THEN /\ reply' = Reply("GetTtl", key, NoValue, 0, "true")
            /\ UNCHANGED <<memory, aofCommandsBuffer, sweepPending, disk, now>>
       ELSE IF expirationKeys[key] - now >= 0
       THEN /\ reply' = Reply("GetTtl", key, NoValue, expirationKeys[key] - now, "true")
            /\ UNCHANGED <<memory, aofCommandsBuffer, sweepPending, disk, now>>
       ELSE /\ SetDb(SafeRemoveKey(CurrentDb, key))
            /\ reply' = Reply("GetTtl", key, NoValue, -1, "false")
            /\ UNCHANGED <<indexes, aofCommandsBuffer, sweepPending, disk, now>>

GetTtl(key) ==
    /\ Step
    /\ IF key \notin DOMAIN store
       THEN /\ reply' = Reply("GetTtl", key, NoValue, -1, "false")
            /\ UNCHANGED <<memory, aofCommandsBuffer, sweepPending, disk, now>>
       ELSE IF key \notin DOMAIN expirationKeys
       THEN /\ reply' = Reply("GetTtl", key, NoValue, 0, "true")
            /\ UNCHANGED <<memory, aofCommandsBuffer, sweepPending, disk, now>>
       ELSE IF expirationKeys[key] - now > 0
       THEN /\ reply' = Reply("GetTtl", key, NoValue, expirationKeys[key] - now, "true")
            /\ UNCHANGED <<memory, aofCommandsBuffer, sweepPending, disk, now>>
       ELSE /\ SetDb(SafeRemoveKey(CurrentDb, key))
            /\ reply' = Reply("GetTtl", key, NoValue, -1, "false")
            /\ UNCHANGED <<indexes, aofCommandsBuffer, sweepPending, disk, now>>

\* ------------------------------------------------------------------ searches
Queries == {"", "a", "aa", "v", "1"}

SearchOps == {"SearchByValue", "SearchByKeyPrefix", "SearchByKeySuffix", "SearchByKeyContains"}

\* the keys of the entry of an index, none when there is no entry
EntryKeys(entries, indexKey) ==
    IF indexKey \in DOMAIN entries THEN entries[indexKey] ELSE {}

SearchByValue(value) ==
    /\ Step
    /\ reply' = SearchReply("SearchByValue", value, EntryKeys(valueIndex, value))
    /\ UNCHANGED <<memory, aofCommandsBuffer, sweepPending, disk, now>>

SearchByKeyPrefix(prefix) ==
    /\ Step
    /\ reply' = SearchReply("SearchByKeyPrefix", prefix, EntryKeys(prefixIndex, prefix))
    /\ UNCHANGED <<memory, aofCommandsBuffer, sweepPending, disk, now>>

SearchByKeySuffix(suffix) ==
    /\ Step
    /\ reply' = SearchReply("SearchByKeySuffix", suffix, EntryKeys(suffixIndex, suffix))
    /\ UNCHANGED <<memory, aofCommandsBuffer, sweepPending, disk, now>>

\* IndexFrom that gives up one position early
RECURSIVE IndexFromStoppingEarly(_, _, _)
IndexFromStoppingEarly(s, substr, i) ==
    IF i + Len(substr) >= Len(s) THEN -1
    ELSE IF SubSeq(s, i + 1, i + Len(substr)) = substr THEN i
    ELSE IndexFromStoppingEarly(s, substr, i + 1)

\* strings.Contains(s, substr)
RECURSIVE IndexFrom(_, _, _)
IndexFrom(s, substr, i) ==
    IF i + Len(substr) > Len(s) THEN -1
    ELSE IF SubSeq(s, i + 1, i + Len(substr)) = substr THEN i
    ELSE IndexFrom(s, substr, i + 1)

Contains(s, substr) == IndexFrom(s, substr, 0) >= 0

SearchByKeyContains(substring) ==
    /\ Step
    /\ reply' = SearchReply("SearchByKeyContains", substring,
                            {key \in DOMAIN store : Contains(key, substring)})
    /\ UNCHANGED <<memory, aofCommandsBuffer, sweepPending, disk, now>>

\* ------------------------------------------------------------------ JSON
\* encoding/json: Marshal of a Go value, Unmarshal into an `any`
JsonNull == [json |-> "null", value |-> ""]

\* json.Marshal returns an UnsupportedTypeError for a func
JsonSupported(value) == value.type # "func"

JsonMarshal(value) ==
    CASE value.type = "" -> JsonNull
      [] value.type \in {"string", "RedigoString"} -> [json |-> "string", value |-> value.value]
      [] value.type = "bool" -> [json |-> "bool", value |-> value.value]
      [] value.type = "int" -> [json |-> "number", value |-> value.value * 10]
      [] value.type = "float64" -> [json |-> "number", value |-> value.value]

JsonUnmarshal(j) ==
    CASE j.json = "null" -> NoValue
      [] j.json = "string" -> StringValue(j.value)
      [] j.json = "bool" -> BoolValue(j.value)
      [] j.json = "number" -> FloatValue(j.value)

\* the Go value held in a CommandValue's Value field
RawValue(commandValue) ==
    IF commandValue.type = "" THEN NoValue
    ELSE [type |-> commandValue.type, value |-> commandValue.value]

\* json.Marshal(command): one line of the AOF
MarshalCommand(command) ==
    [name |-> command.name, key |-> command.key,
     value |-> [type |-> command.value.type,
                value |-> JsonMarshal(RawValue(command.value))],
     ttl |-> command.ttl, timestamp |-> command.timestamp]

\* int(v) of a float64 in tenths: truncation toward zero
TruncateToInt(tenths) ==
    IF tenths >= 0 THEN tenths \div 10 ELSE -((-tenths) \div 10)

\* the value a CommandValue read back from a line deserializes to
DeserializeCommandValue(commandValue) ==
    LET raw == JsonUnmarshal(commandValue.value)
    IN CASE commandValue.type = "string" /\ raw.type = "string" ->
                [ok |-> TRUE, value |-> raw]
         [] commandValue.type = "bool" /\ raw.type = "bool" ->
                [ok |-> TRUE, value |-> raw]
         [] commandValue.type = "int" /\ raw.type = "float64" ->
                [ok |-> TRUE, value |-> IntValue(TruncateToInt(raw.value))]
         [] commandValue.type = "float64" /\ raw.type = "float64" ->
                [ok |-> TRUE, value |-> raw]
         [] OTHER -> [ok |-> FALSE, value |-> NoValue]

\* ------------------------------------------------------------------ AOF replay
\* handleTtlRestoration that counts the ttl from the time of the replay
handleTtlRestorationFromNow(db, command, t) ==
    IF command.ttl = <<>> \/ command.ttl[1] <= 0 THEN db
    ELSE [db EXCEPT !.expirationKeys = MapSet(@, command.key, t + command.ttl[1])]

handleTtlRestoration(db, command, t) ==
    IF command.ttl = <<>> \/ command.ttl[1] <= 0 THEN db
    ELSE IF command.timestamp + command.ttl[1] > t
         THEN [db EXCEPT !.expirationKeys =
                    MapSet(@, command.key, command.timestamp + command.ttl[1])]
         ELSE UnsafeRemoveKey(db, command.key)

handleSetCommand(db, command, t) ==
    LET deserialized == DeserializeCommandValue(command.value)
    IN IF ~deserialized.ok THEN db
       ELSE handleTtlRestoration(
                [db EXCEPT !.store = MapSet(@, command.key, deserialized.value)],
                command, t)

handleDeleteCommand(db, command) == SafeRemoveKey(db, command.key)

parseExpirationSeconds(commandValue) ==
    LET raw == JsonUnmarshal(commandValue.value)
    IN IF raw.type = "float64"
       THEN [ok |-> TRUE, seconds |-> TruncateToInt(raw.value)]
       ELSE [ok |-> FALSE, seconds |-> 0]

\* applyExpiration that counts the seconds from the time of the replay
applyExpirationFromNow(db, key, commandTimestamp, seconds, t) ==
    IF seconds > 0
    THEN [db EXCEPT !.expirationKeys = MapSet(@, key, t + seconds)]
    ELSE UnsafeRemoveKey(db, key)

applyExpiration(db, key, commandTimestamp, seconds, t) ==
    LET elapsedTime == t - commandTimestamp
        remainingTime == seconds - elapsedTime
    IN IF remainingTime > 0
       THEN [db EXCEPT !.expirationKeys = MapSet(@, key, t + remainingTime)]
       ELSE UnsafeRemoveKey(db, key)

handleExpireCommand(db, command, t) ==
    LET parsed == parseExpirationSeconds(command.value)
    IN IF ~parsed.ok THEN db
       ELSE IF command.key \notin DOMAIN db.store THEN db
       ELSE applyExpiration(db, command.key, command.timestamp, parsed.seconds, t)

\* handleCommand that knows no DELETE
handleCommandIgnoringDelete(db, command, t) ==
    CASE command.name = "SET" -> handleSetCommand(db, command, t)
      [] command.name = "EXPIRE" -> handleExpireCommand(db, command, t)
      [] OTHER -> db

handleCommand(db, command, t) ==
    CASE command.name = "SET" -> handleSetCommand(db, command, t)
      [] command.name = "DELETE" -> handleDeleteCommand(db, command)
      [] command.name = "EXPIRE" -> handleExpireCommand(db, command, t)
      [] OTHER -> db

\* a line that is no JSON text; size is "long" when the line has more than
\* bufio.MaxScanTokenSize bytes
InvalidJson(size) == [json |-> "invalid", value |-> size]

\* json.Unmarshal([]byte(aofLine), &command) returns no error
JsonValid(line) == line.value.value.json # "invalid"

\* scanner.Scan() stops at a line of more than MaxScanTokenSize bytes and
\* scanner.Err() is ErrTooLong
TooLong(line) == ~JsonValid(line) /\ line.value.value.value = "long"

processAofLine(db, line, t) ==
    IF ~JsonValid(line) THEN db ELSE handleCommand(db, line, t)

\* lo.ForEach(lines, processAofLine) that returns at the first line json.Unmarshal rejects
RECURSIVE ForEachLineUntilError(_, _, _)
ForEachLineUntilError(db, lines, t) ==
    IF lines = <<>> \/ ~JsonValid(Head(lines)) THEN db
    ELSE ForEachLineUntilError(processAofLine(db, Head(lines), t), Tail(lines), t)

\* lo.ForEach(lines, processAofLine): an error is printed, the next line is processed
RECURSIVE ForEachLine(_, _, _)
ForEachLine(db, lines, t) ==
    IF lines = <<>> THEN db
    ELSE ForEachLine(processAofLine(db, Head(lines), t), Tail(lines), t)

\* the lines are all read first: when the scanner gave up, its error is
\* returned and no line is processed
processAofCommands(db, lines, t) ==
    IF \E i \in 1..Len(lines) : TooLong(lines[i]) THEN db
    ELSE ForEachLine(db, lines, t)

\* ------------------------------------------------------------------ snapshot
\* a Go func value: a closure of LoadFromSnapshot, named by what it is for (the
\* name also stands for the address that %v prints)
FuncValue(name) == [type |-> "func", value |-> name]

\* lo.Switch[any, any](predicate).Case(val, result)...Default(result): the
\* result of the first case whose val equals the predicate, else the default
RECURSIVE Switch(_, _, _)
Switch(predicate, cases, default) ==
    IF cases = <<>> THEN default
    ELSE IF predicate = Head(cases).val THEN Head(cases).result
    ELSE Switch(predicate, Tail(cases), default)

\* the store LoadFromSnapshot builds from the snapshot file's entries: each
\* Case is given two closures, as its val and as its result, and Default a third
LoadFromSnapshot(file) ==
    LET loaded == [k \in DOMAIN file |->
                      Switch(JsonUnmarshal(file[k]),
                             <<[val |-> FuncValue("isScalar"), result |-> FuncValue("keep")],
                               [val |-> FuncValue("isFloat64"), result |-> FuncValue("wholeNumber")]>>,
                             FuncValue("skip"))]
        kept == {k \in DOMAIN file : loaded[k].type # ""}
    IN [k \in kept |-> loaded[k]]

LoadIndexesFromFile(file) ==
    IF file = <<>> THEN Indexes(EmptyMap, EmptyMap, EmptyMap) ELSE file[1]

RECURSIVE RemoveKeys(_, _)
RemoveKeys(db, keys) ==
    IF keys = {} THEN db
    ELSE LET k == CHOOSE x \in keys : TRUE
         IN RemoveKeys(UnsafeRemoveKey(db, k), keys \ {k})

\* UpdateSnapshot when every file operation succeeds; json.MarshalIndent may fail
UpdateSnapshot ==
    /\ Step
    /\ LET expired == {k \in DOMAIN store :
                           k \in DOMAIN expirationKeys /\ now > expirationKeys[k]}
       IN /\ SetDb(RemoveKeys(CurrentDb, expired))
          /\ IF \A k \in DOMAIN store \ expired : JsonSupported(store[k])
             THEN /\ snapshotFile' = [k \in DOMAIN store \ expired |-> JsonMarshal(store[k])]
                  /\ aofFile' = <<>>
                  /\ indexFile' = <<CurrentIndexes>>
             ELSE UNCHANGED disk
    /\ reply' = Background("UpdateSnapshot")
    /\ UNCHANGED <<indexes, aofCommandsBuffer, sweepPending, now>>

\* ------------------------------------------------------------------ AOF flusher
RECURSIVE writeCommandsToAof(_, _)
writeCommandsToAof(file, commands) ==
    IF commands = <<>> THEN file
    ELSE writeCommandsToAof(Append(file, MarshalCommand(Head(commands))), Tail(commands))

\* FlushBuffer when every write succeeds
FlushBuffer ==
    /\ Step
    /\ aofCommandsBuffer # <<>>
    /\ aofFile' = writeCommandsToAof(aofFile, aofCommandsBuffer)
    /\ aofCommandsBuffer' = <<>>
    /\ reply' = Background("FlushBuffer")
    /\ UNCHANGED <<memory, sweepPending, snapshotFile, indexFile, now>>

\* ------------------------------------------------------------------ expiration sweeper
Orderings(S) ==
    {f \in [1..Cardinality(S) -> S] : \A i, j \in 1..Cardinality(S) : i # j => f[i] # f[j]}

RECURSIVE SafeRemoveKeys(_, _)
SafeRemoveKeys(db, keys) ==
    IF keys = <<>> THEN db
    ELSE SafeRemoveKeys(SafeRemoveKey(db, Head(keys)), Tail(keys))

\* the keys a pass of the sweeper takes for expired
expiredKeysAt(time) == {k \in DOMAIN expirationKeys : time > expirationKeys[k]}

\* cleanupHandler that takes the keys whose deadline is still ahead for expired
cleanupHandlerBeforeDeadline ==
    /\ sweepPending = <<>>
    /\ \E expiredKeys \in Orderings({k \in DOMAIN expirationKeys : now < expirationKeys[k]}) :
          /\ SetDb(SafeRemoveKeys(CurrentDb, expiredKeys))
          /\ sweepPending' = [i \in 1..Len(expiredKeys) |-> DeleteCommand(expiredKeys[i], now)]
    /\ reply' = Background("StartDataExpirationListener")
    /\ UNCHANGED <<indexes, aofCommandsBuffer, disk, now>>

\* cleanupHandler up to the release of the store mutex
cleanupHandler ==
    /\ sweepPending = <<>>
    /\ \E expiredKeys \in Orderings(expiredKeysAt(now)) :
          /\ SetDb(SafeRemoveKeys(CurrentDb, expiredKeys))
          /\ sweepPending' = [i \in 1..Len(expiredKeys) |-> DeleteCommand(expiredKeys[i], now)]
    /\ reply' = Background("StartDataExpirationListener")
    /\ UNCHANGED <<indexes, aofCommandsBuffer, disk, now>>

\* cleanupHandler appends one of its DELETE commands, the store mutex released
cleanupHandlerLog ==
    /\ sweepPending # <<>>
    /\ aofCommandsBuffer' = AddCommandsToAofBuffer(aofCommandsBuffer, Head(sweepPending))
    /\ sweepPending' = Tail(sweepPending)
    /\ reply' = Background("SweeperLogCommand")
    /\ UNCHANGED <<memory, disk, now>>

\* one pass of the sweeper up to the release of the store mutex
StartDataExpirationListener == Step /\ cleanupHandler

\* the sweeper appends one of its DELETE commands, the store mutex released
SweeperLogCommand == Step /\ cleanupHandlerLog

\* ------------------------------------------------------------------ start-up
\* the process stops and starts again: memory is lost, the files are read back
InitializeRedigo ==
    /\ Step
    /\ SetDb(processAofCommands(Db(LoadFromSnapshot(snapshotFile), EmptyMap), aofFile, now))
    /\ SetIndexes(LoadIndexesFromFile(indexFile))
    /\ aofCommandsBuffer' = <<>>
    /\ sweepPending' = <<>>
    /\ reply' = Background("InitializeRedigo")
    /\ UNCHANGED <<disk, now>>

Tick(elapsed) ==
    /\ Step
    /\ now' = now + elapsed
    /\ reply' = Background("Tick")
    /\ UNCHANGED <<memory, aofCommandsBuffer, sweepPending, disk>>

\* ------------------------------------------------------------------ specification
\* a mutex nobody holds
Unlocked == ""
RWUnlocked == [writer |-> "", readers |-> {}]

\* a goroutine between two calls
Idle == [pc |-> "idle", jsonData |-> EmptyMap, batch |-> <<>>, written |-> 0, err |-> ""]

\* the snapshot and flush goroutines wait for their tickers, every mutex is free
NoGoroutineRunning ==
    /\ storeMutex = Unlocked
    /\ indexMutex = RWUnlocked
    /\ aofCommandsBufferMutex = Unlocked
    /\ aofMutex = Unlocked
    /\ goroutines = [g \in {"snapshot", "flusher"} |-> Idle]
    /\ tempSnapshotFile = <<>>

Init ==
    /\ store = EmptyMap
    /\ expirationKeys = EmptyMap
    /\ valueIndex = EmptyMap
    /\ prefixIndex = EmptyMap
    /\ suffixIndex = EmptyMap
    /\ aofCommandsBuffer = <<>>
    /\ sweepPending = <<>>
    /\ aofFile = <<>>
    /\ snapshotFile = EmptyMap
    /\ indexFile = <<>>
    /\ now = 0
    /\ reply = Background("InitializeRedigo")
    /\ steps = 0
    /\ NoGoroutineRunning

Next ==
    \/ \E key \in Keys, value \in Values, ttl \in Ttls : Set(key, value, ttl)
    \/ \E key \in Keys : Get(key)
    \/ \E key \in Keys : Delete(key)
    \/ \E key \in Keys, seconds \in ExpirySeconds : SetExpiry(key, seconds)
    \/ \E key \in Keys : GetTtl(key)
    \/ UpdateSnapshot
    \/ FlushBuffer
    \/ StartDataExpirationListener
    \/ SweeperLogCommand
    \/ InitializeRedigo
    \/ \E elapsed \in Elapsed : Tick(elapsed)

Spec == Init /\ [][Next]_vars

\* ------------------------------------------------------------------ Command API alone
\* the values Set accepts
SupportedValues == {value \in Values : value.type \in SupportedTypes}

\* calls of the Command API on a database that started empty, no background
\* task running: the AOF buffer holds every record the calls emitted
ApiNext ==
    \/ \E key \in Keys, value \in SupportedValues, ttl \in Ttls : Set(key, value, ttl)
    \/ \E key \in Keys : Get(key)
    \/ \E key \in Keys : Delete(key)
    \/ \E key \in Keys, seconds \in ExpirySeconds : SetExpiry(key, seconds)
    \/ \E key \in Keys : GetTtl(key)
    \/ \E value \in Queries : SearchByValue(value)
    \/ \E prefix \in Queries : SearchByKeyPrefix(prefix)
    \/ \E suffix \in Queries : SearchByKeySuffix(suffix)
    \/ \E substring \in Queries : SearchByKeyContains(substring)
    \/ \E elapsed \in Elapsed : Tick(elapsed)

ApiSpec == Init /\ [][ApiNext]_vars

\* ------------------------------------------------------------------ replay alone
MaxTimestamp == 1
MaxReplayTime == 3

\* the records a file to replay is made of
ReplayRecords ==
    {SetCommand(key, value.type, value.value, ttl, timestamp) :
        key \in Keys, value \in SupportedValues, ttl \in 0..2, timestamp \in 0..MaxTimestamp}
    \cup {DeleteCommand(key, timestamp) : key \in Keys, timestamp \in 0..MaxTimestamp}
    \cup {ExpireCommand(key, seconds, timestamp) :
            key \in Keys, seconds \in {0, 2}, timestamp \in 0..MaxTimestamp}

\* the AOF files of one or two lines, in the order of their timestamps
ReplayFiles ==
    {<<MarshalCommand(c)>> : c \in ReplayRecords}
    \cup {<<MarshalCommand(c1), MarshalCommand(c2)>> :
            c1 \in {c \in ReplayRecords : c.name = "SET"},
            c2 \in {c \in ReplayRecords : c.name # "SET"}}

\* InitializeRedigo after LoadFromSnapshot found no snapshot, at some time not
\* earlier than the records of the AOF
ReplayInit ==
    /\ store = EmptyMap
    /\ expirationKeys = EmptyMap
    /\ valueIndex = EmptyMap
    /\ prefixIndex = EmptyMap
    /\ suffixIndex = EmptyMap
    /\ aofCommandsBuffer = <<>>
    /\ sweepPending = <<>>
    /\ aofFile \in {file \in ReplayFiles :
                        \A i \in 1..Len(file) - 1 : file[i].timestamp <= file[i + 1].timestamp}
    /\ snapshotFile = EmptyMap
    /\ indexFile = <<>>
    /\ now \in MaxTimestamp..MaxReplayTime
    /\ reply = Background("LoadFromSnapshot")
    /\ steps = 0
    /\ NoGoroutineRunning

\* the replay of the AOF, once, at start-up
LoadFromAof ==
    /\ Step
    /\ reply.op = "LoadFromSnapshot"
    /\ SetDb(processAofCommands(CurrentDb, aofFile, now))
    /\ reply' = Background("LoadFromAof")
    /\ UNCHANGED <<indexes, aofCommandsBuffer, sweepPending, disk, now>>

\* the replay, then calls of get_ttl as time passes
ReplayNext ==
    \/ LoadFromAof
    \/ reply.op # "LoadFromSnapshot" /\ \E key \in Keys : GetTtl(key)
    \/ reply.op # "LoadFromSnapshot" /\ \E elapsed \in Elapsed : Tick(elapsed)

ReplaySpec == ReplayInit /\ [][ReplayNext]_vars

\* a Set that returns nil
SuccessfulSet(key, value, ttl) ==
    /\ Set(key, value, ttl)
    /\ reply'.result = "OK"

\* successful sets, deletes and searches only
SetDeleteNext ==
    \/ \E key \in Keys, value \in Values, ttl \in Ttls : SuccessfulSet(key, value, ttl)
    \/ \E key \in Keys : Delete(key)
    \/ \E value \in Queries : SearchByValue(value)
    \/ \E prefix \in Queries : SearchByKeyPrefix(prefix)
    \/ \E suffix \in Queries : SearchByKeySuffix(suffix)
    \/ \E elapsed \in Elapsed : Tick(elapsed)

SetDeleteSpec == Init /\ [][SetDeleteNext]_vars

\* ------------------------------------------------------------------ replay of a damaged AOF
\* well-formed lines
GoodLines ==
    {MarshalCommand(c) : c \in {SetCommand("a", "string", "v", 0, 0),
                                 SetCommand("a", "int", 1, 2, 0),
                                 SetCommand("aa", "string", "v", 0, 0),
                                 DeleteCommand("a", 1),
                                 ExpireCommand("aa", 2, 1)}}

\* a line cut short, a line of garbage longer than the scanner's limit, a
\* command that does not exist, and values that do not deserialize
BadLines ==
    LET set == MarshalCommand(SetCommand("a", "string", "v", 0, 0))
    IN {[set EXCEPT !.value.value = InvalidJson("short")],
        [set EXCEPT !.value.value = InvalidJson("long")],
        [set EXCEPT !.name = "INCR"],
        [set EXCEPT !.value.type = "bool"],
        [set EXCEPT !.value.type = "[]string"],
        [set EXCEPT !.name = "EXPIRE"]}

\* the files of three lines with a bad line among them
BadRecordFiles ==
    {file \in [1..3 -> GoodLines \cup BadLines] : \E i \in 1..3 : file[i] \in BadLines}

\* InitializeRedigo after LoadFromSnapshot found no snapshot
BadRecordInit ==
    /\ store = EmptyMap
    /\ expirationKeys = EmptyMap
    /\ valueIndex = EmptyMap
    /\ prefixIndex = EmptyMap
    /\ suffixIndex = EmptyMap
    /\ aofCommandsBuffer = <<>>
    /\ sweepPending = <<>>
    /\ aofFile \in BadRecordFiles
    /\ snapshotFile = EmptyMap
    /\ indexFile = <<>>
    /\ now = 1
    /\ reply = Background("LoadFromSnapshot")
    /\ steps = 0
    /\ NoGoroutineRunning

BadRecordSpec == BadRecordInit /\ [][LoadFromAof]_vars

\* ------------------------------------------------------------------ the Command API beside the files
\* every Command API call and search on one key, with the flusher and the
\* snapshot writing the files
FrameNext ==
    \/ \E value \in SupportedValues, ttl \in Ttls : Set("a", value, ttl)
    \/ Get("a")
    \/ Delete("a")
    \/ \E seconds \in ExpirySeconds : SetExpiry("a", seconds)
    \/ GetTtl("a")
    \/ SearchByValue("v")
    \/ SearchByKeyPrefix("a")
    \/ SearchByKeySuffix("a")
    \/ SearchByKeyContains("a")
    \/ FlushBuffer
    \/ UpdateSnapshot
    \/ Tick(2)

FrameSpec == Init /\ [][FrameNext]_vars

\* ------------------------------------------------------------------ shutdown
\* CloseAof: the AOF file is closed as it is; the command buffer is not read
CloseAof ==
    /\ Step
    /\ reply' = Background("CloseAof")
    /\ UNCHANGED <<memory, aofCommandsBuffer, sweepPending, disk, now>>

\* main returned: its deferred CloseAof has run
Closed == reply.op = "CloseAof"

\* client calls and the flusher until main returns and closes the AOF
ShutdownNext ==
    /\ ~Closed
    /\ \/ \E key \in Keys, value \in SupportedValues, ttl \in Ttls : Set(key, value, ttl)
       \/ \E key \in Keys : Delete(key)
       \/ FlushBuffer
       \/ CloseAof

ShutdownSpec == Init /\ [][ShutdownNext]_vars

\* ------------------------------------------------------------------ the sweeper on its ticker
\* the ticker fires: for range ticker.C runs cleanupHandler for as long as
\* the process lives, whatever the clients do
TickerPass ==
    /\ cleanupHandler
    /\ UNCHANGED <<steps, mutexes, goroutines, tempSnapshotFile>>

TickerLog ==
    /\ cleanupHandlerLog
    /\ UNCHANGED <<steps, mutexes, goroutines, tempSnapshotFile>>

\* clients that set, read and delete keys while the clock advances, and the
\* sweeper
SweepNext ==
    \/ \E key \in Keys, ttl \in Ttls : Set(key, StringValue("v"), ttl)
    \/ \E key \in Keys : Get(key)
    \/ \E key \in Keys : Delete(key)
    \/ \E elapsed \in Elapsed : Tick(elapsed)
    \/ TickerPass
    \/ TickerLog

\* every tick of the ticker is served
SweepSpec ==
    /\ Init
    /\ [][SweepNext]_vars
    /\ WF_vars(TickerPass)
    /\ WF_vars(TickerLog)

\* ------------------------------------------------------------------ persistence, step by step
\* what a background call returned: "nil" or its error
Returned(op, err) == Reply(op, "", NoValue, 0, err)

\* the return of UpdateSnapshot and its deferred storeMutex.Unlock()
UpdateSnapshotReturn(err) ==
    /\ storeMutex' = Unlocked
    /\ goroutines' = [goroutines EXCEPT !["snapshot"] = Idle]
    /\ reply' = Returned("UpdateSnapshot", err)

\* UpdateSnapshotLock that unlocks the store mutex once the store is serialized
UpdateSnapshotLockReleasedEarly ==
    /\ Budget
    /\ goroutines["snapshot"].pc = "idle"
    /\ storeMutex = Unlocked
    /\ LET expired == {k \in DOMAIN store :
                           k \in DOMAIN expirationKeys /\ now > expirationKeys[k]}
           live == DOMAIN store \ expired
       IN /\ SetDb(RemoveKeys(CurrentDb, expired))
          /\ IF \A k \in live : JsonSupported(store[k])
             THEN /\ storeMutex' = Unlocked
                  /\ goroutines' = [goroutines EXCEPT !["snapshot"] =
                        [Idle EXCEPT !.pc = "write_temp_file",
                                     !.jsonData = [k \in live |-> JsonMarshal(store[k])]]]
                  /\ reply' = Background("UpdateSnapshotLock")
             ELSE UpdateSnapshotReturn("json: unsupported type")
    /\ UNCHANGED <<indexes, aofCommandsBuffer, sweepPending, disk, now,
                   indexMutex, aofCommandsBufferMutex, aofMutex, tempSnapshotFile>>

\* UpdateSnapshot up to its file operations: storeMutex.Lock(), the eviction
\* of the expired keys, json.MarshalIndent of the others
UpdateSnapshotLock ==
    /\ Budget
    /\ goroutines["snapshot"].pc = "idle"
    /\ storeMutex = Unlocked
    /\ LET expired == {k \in DOMAIN store :
                           k \in DOMAIN expirationKeys /\ now > expirationKeys[k]}
           live == DOMAIN store \ expired
       IN /\ SetDb(RemoveKeys(CurrentDb, expired))
          /\ IF \A k \in live : JsonSupported(store[k])
             THEN /\ storeMutex' = "snapshot"
                  /\ goroutines' = [goroutines EXCEPT !["snapshot"] =
                        [Idle EXCEPT !.pc = "write_temp_file",
                                     !.jsonData = [k \in live |-> JsonMarshal(store[k])]]]
                  /\ reply' = Background("UpdateSnapshotLock")
             ELSE UpdateSnapshotReturn("json: unsupported type")
    /\ UNCHANGED <<indexes, aofCommandsBuffer, sweepPending, disk, now,
                   indexMutex, aofCommandsBufferMutex, aofMutex, tempSnapshotFile>>

\* fileOperations with truncate_aof ahead of atomic_rename
NextFileOperationTruncatingFirst(operation) ==
    CASE operation = "write_temp_file" -> "truncate_aof"
      [] operation = "truncate_aof" -> "atomic_rename"
      [] operation = "atomic_rename" -> "dump_indexes"

\* the file operation that follows `operation` in fileOperations
NextFileOperation(operation) ==
    CASE operation = "write_temp_file" -> "atomic_rename"
      [] operation = "atomic_rename" -> "truncate_aof"
      [] operation = "truncate_aof" -> "dump_indexes"

\* one turn of the loop over fileOperations: the operation failed and
\* UpdateSnapshot returns, or it succeeded and the next one is due
FileOperation(operation, fails) ==
    /\ goroutines["snapshot"].pc = operation
    /\ IF fails
       THEN UpdateSnapshotReturn("failed to " \o operation)
       ELSE IF operation = "dump_indexes"
            THEN UpdateSnapshotReturn("nil")
            ELSE /\ goroutines' = [goroutines EXCEPT !["snapshot"].pc = NextFileOperation(operation)]
                 /\ reply' = Background(operation)
                 /\ UNCHANGED storeMutex
    /\ UNCHANGED <<memory, aofCommandsBuffer, sweepPending, now, steps,
                   indexMutex, aofCommandsBufferMutex, aofMutex>>

\* os.WriteFile(tempSnapshotPath, jsonData, 0644); what a failed write leaves
\* in the temporary file is never read
write_temp_file(fails) ==
    /\ FileOperation("write_temp_file", fails)
    /\ tempSnapshotFile' = IF fails THEN tempSnapshotFile
                           ELSE <<goroutines["snapshot"].jsonData>>
    /\ UNCHANGED disk

\* os.Rename(tempSnapshotPath, snapshotPath)
atomic_rename(fails) ==
    /\ FileOperation("atomic_rename", fails)
    /\ IF fails
       THEN UNCHANGED <<snapshotFile, tempSnapshotFile>>
       ELSE /\ snapshotFile' = tempSnapshotFile[1]
            /\ tempSnapshotFile' = <<>>
    /\ UNCHANGED <<aofFile, indexFile>>

\* os.Truncate(aofPath, 0): by path, no mutex taken
truncate_aof(fails) ==
    /\ FileOperation("truncate_aof", fails)
    /\ aofFile' = IF fails THEN aofFile ELSE <<>>
    /\ UNCHANGED <<snapshotFile, indexFile, tempSnapshotFile>>

\* DumpIndexesToFile under indexMutex.RLock(), then the return of UpdateSnapshot
dump_indexes(fails) ==
    /\ indexMutex.writer = ""
    /\ FileOperation("dump_indexes", fails)
    /\ indexFile' = IF fails THEN indexFile ELSE <<CurrentIndexes>>
    /\ UNCHANGED <<aofFile, snapshotFile, tempSnapshotFile>>

\* FlushBufferTake that leaves the copied commands in the buffer
FlushBufferTakeKeepingBuffer ==
    /\ Budget
    /\ goroutines["flusher"].pc = "idle"
    /\ aofCommandsBufferMutex = Unlocked
    /\ aofMutex = Unlocked
    /\ aofCommandsBuffer # <<>>
    /\ goroutines' = [goroutines EXCEPT !["flusher"] =
                        [Idle EXCEPT !.pc = "write", !.batch = aofCommandsBuffer]]
    /\ aofMutex' = "flusher"
    /\ reply' = Background("FlushBufferTake")
    /\ UNCHANGED <<memory, aofCommandsBuffer, sweepPending, disk, now, storeMutex,
                   indexMutex, aofCommandsBufferMutex, tempSnapshotFile>>

\* FlushBuffer up to aofMutex.Lock(): the buffer is copied and emptied under
\* its mutex; an empty buffer makes FlushBuffer return at once
FlushBufferTake ==
    /\ Budget
    /\ goroutines["flusher"].pc = "idle"
    /\ aofCommandsBufferMutex = Unlocked
    /\ aofMutex = Unlocked
    /\ aofCommandsBuffer # <<>>
    /\ goroutines' = [goroutines EXCEPT !["flusher"] =
                        [Idle EXCEPT !.pc = "write", !.batch = aofCommandsBuffer]]
    /\ aofCommandsBuffer' = <<>>
    /\ aofMutex' = "flusher"
    /\ reply' = Background("FlushBufferTake")
    /\ UNCHANGED <<memory, sweepPending, disk, now, storeMutex, indexMutex,
                   aofCommandsBufferMutex, tempSnapshotFile>>

\* writeCommandToAof: the line json.Marshal makes of the command, appended
writeCommandToAof(file, command) == Append(file, MarshalCommand(command))

\* FlushBufferWrite that goes on to the next command after a failed write
FlushBufferWriteIgnoringError(fails) ==
    /\ goroutines["flusher"].pc = "write"
    /\ goroutines["flusher"].written < Len(goroutines["flusher"].batch)
    /\ IF fails
       THEN /\ goroutines' = [goroutines EXCEPT !["flusher"].written = @ + 1]
            /\ UNCHANGED aofFile
       ELSE /\ aofFile' = writeCommandToAof(aofFile,
                    goroutines["flusher"].batch[goroutines["flusher"].written + 1])
            /\ goroutines' = [goroutines EXCEPT !["flusher"].written = @ + 1]
    /\ reply' = Background("FlushBufferWrite")
    /\ UNCHANGED <<memory, aofCommandsBuffer, sweepPending, snapshotFile, indexFile,
                   now, steps, mutexes, tempSnapshotFile>>

\* one turn of FlushBuffer's loop over the batch, no error accumulated so far:
\* the next command is written, or the write fails and nothing reaches the file
FlushBufferWrite(fails) ==
    /\ goroutines["flusher"].pc = "write"
    /\ goroutines["flusher"].err = ""
    /\ goroutines["flusher"].written < Len(goroutines["flusher"].batch)
    /\ IF fails
       THEN /\ goroutines' = [goroutines EXCEPT !["flusher"].err = "failed to write to AOF file"]
            /\ UNCHANGED aofFile
       ELSE /\ aofFile' = writeCommandToAof(aofFile,
                    goroutines["flusher"].batch[goroutines["flusher"].written + 1])
            /\ goroutines' = [goroutines EXCEPT !["flusher"].written = @ + 1]
    /\ reply' = Background("FlushBufferWrite")
    /\ UNCHANGED <<memory, aofCommandsBuffer, sweepPending, snapshotFile, indexFile,
                   now, steps, mutexes, tempSnapshotFile>>

\* the rest of FlushBuffer: the turns of the loop left after an error write
\* nothing, then accumulatedError is returned and aofMutex unlocked
FlushBufferReturn ==
    /\ goroutines["flusher"].pc = "write"
    /\ \/ goroutines["flusher"].err # ""
       \/ goroutines["flusher"].written = Len(goroutines["flusher"].batch)
    /\ aofMutex' = Unlocked
    /\ goroutines' = [goroutines EXCEPT !["flusher"] = Idle]
    /\ reply' = Returned("FlushBuffer",
                         IF goroutines["flusher"].err = "" THEN "nil"
                         ELSE goroutines["flusher"].err)
    /\ UNCHANGED <<memory, aofCommandsBuffer, sweepPending, disk, now, steps,
                   storeMutex, indexMutex, aofCommandsBufferMutex, tempSnapshotFile>>

\* the process is killed and started again: InitializeRedigo reads the files
\* back, the temporary snapshot file stays where it was
Crash ==
    /\ Budget
    /\ SetDb(processAofCommands(Db(LoadFromSnapshot(snapshotFile), EmptyMap), aofFile, now))
    /\ SetIndexes(LoadIndexesFromFile(indexFile))
    /\ aofCommandsBuffer' = <<>>
    /\ sweepPending' = <<>>
    /\ storeMutex' = Unlocked
    /\ indexMutex' = RWUnlocked
    /\ aofCommandsBufferMutex' = Unlocked
    /\ aofMutex' = Unlocked
    /\ goroutines' = [g \in DOMAIN goroutines |-> Idle]
    /\ reply' = Background("Crash")
    /\ UNCHANGED <<disk, now, tempSnapshotFile>>

\* client calls, the snapshot goroutine and the flusher, interleaved at every
\* file operation, with I/O errors and crashes
IoNext ==
    \/ storeMutex = Unlocked /\ \E key \in Keys, value \in SupportedValues, ttl \in Ttls :
            Set(key, value, ttl)
    \/ storeMutex = Unlocked /\ \E key \in Keys : Delete(key)
    \/ Tick(2)
    \/ UpdateSnapshotLock
    \/ \E fails \in BOOLEAN : write_temp_file(fails)
    \/ \E fails \in BOOLEAN : atomic_rename(fails)
    \/ \E fails \in BOOLEAN : truncate_aof(fails)
    \/ \E fails \in BOOLEAN : dump_indexes(fails)
    \/ FlushBufferTake
    \/ \E fails \in BOOLEAN : FlushBufferWrite(fails)
    \/ FlushBufferReturn
    \/ Crash

IoSpec == Init /\ [][IoNext]_vars

\* client calls and the flusher, no snapshot: the AOF is never truncated
FlushNext ==
    \/ \E key \in Keys, value \in SupportedValues : Set(key, value, 0)
    \/ \E key \in Keys : Delete(key)
    \/ FlushBufferTake
    \/ \E fails \in BOOLEAN : FlushBufferWrite(fails)
    \/ FlushBufferReturn

FlushSpec == Init /\ [][FlushNext]_vars

\* ------------------------------------------------------------------ the mutexes, call by call
\* the goroutines InitializeRedigo starts, and two client connections
LockGoroutines == {"client1", "client2", "snapshot", "flusher", "sweeper"}

\* the calls a goroutine makes
CallsOf(g) ==
    CASE g = "snapshot" -> {"UpdateSnapshot"}
      [] g = "flusher" -> {"FlushBuffer"}
      [] g = "sweeper" -> {"StartDataExpirationListener"}
      [] OTHER -> {"Set", "Delete", "SearchByValue", "SearchByKeyPrefix",
                   "SearchByKeySuffix", "SearchByKeyContains"}

\* the lock operations of SafeRemoveKey: the store's remove is used under the
\* store lock and takes none
SafeRemoveKeyLocks == <<>>

\* the Lock, RLock, Unlock and RUnlock calls of a call, in the order it makes
\* them, the key-removal helper making those of removal; a deferred unlock
\* comes last; GetTtl and the sweeper are the calls that meet an expired key
CallLockOperations(call, removal) ==
    CASE call \in {"Set", "Delete"} ->
            <<<<"Lock", "storeMutex">>, <<"Lock", "indexMutex">>, <<"Unlock", "indexMutex">>,
              <<"Lock", "aofCommandsBufferMutex">>, <<"Unlock", "aofCommandsBufferMutex">>,
              <<"Unlock", "storeMutex">>>>
      [] call \in {"SearchByValue", "SearchByKeyPrefix", "SearchByKeySuffix"} ->
            <<<<"RLock", "indexMutex">>, <<"RUnlock", "indexMutex">>>>
      [] call = "SearchByKeyContains" ->
            <<<<"RLock", "indexMutex">>, <<"Lock", "storeMutex">>,
              <<"Unlock", "storeMutex">>, <<"RUnlock", "indexMutex">>>>
      [] call = "UpdateSnapshot" ->
            <<<<"Lock", "storeMutex">>, <<"RLock", "indexMutex">>,
              <<"RUnlock", "indexMutex">>, <<"Unlock", "storeMutex">>>>
      [] call = "FlushBuffer" ->
            <<<<"Lock", "aofCommandsBufferMutex">>, <<"Unlock", "aofCommandsBufferMutex">>,
              <<"Lock", "aofMutex">>, <<"Unlock", "aofMutex">>>>
      [] call = "StartDataExpirationListener" ->
            <<<<"Lock", "storeMutex">>>> \o removal \o
            <<<<"Unlock", "storeMutex">>,
              <<"Lock", "aofCommandsBufferMutex">>, <<"Unlock", "aofCommandsBufferMutex">>>>
      [] call = "GetTtl" ->
            <<<<"Lock", "storeMutex">>>> \o removal \o <<<<"Unlock", "storeMutex">>>>

\* LockOperations with a key-removal helper that takes the store mutex itself
LockOperationsRelocking(call) ==
    CallLockOperations(call, <<<<"Lock", "storeMutex">>, <<"Unlock", "storeMutex">>>>)

\* the lock operations of a call, in the order it makes them
LockOperations(call) == CallLockOperations(call, SafeRemoveKeyLocks)

\* a goroutine that is in no call
NoCall == [call |-> "", done |-> 0]

\* the goroutine is in a call
Running(g) == goroutines[g].call # ""

\* the next Lock, RLock, Unlock or RUnlock of the goroutine's call
NextLockOperation(g) == LockOperations(goroutines[g].call)[goroutines[g].done + 1]

\* the goroutine's call has made all its lock operations
Finished(g) == goroutines[g].done = Len(LockOperations(goroutines[g].call))

Mutexes ==
    [storeMutex |-> storeMutex, indexMutex |-> indexMutex,
     aofCommandsBufferMutex |-> aofCommandsBufferMutex, aofMutex |-> aofMutex]

SetMutexes(m) ==
    /\ storeMutex' = m.storeMutex
    /\ indexMutex' = m.indexMutex
    /\ aofCommandsBufferMutex' = m.aofCommandsBufferMutex
    /\ aofMutex' = m.aofMutex

\* the data the lock operations leave alone
lockUnchanged ==
    <<memory, aofCommandsBuffer, sweepPending, disk, now, tempSnapshotFile>>

\* the goroutine's next lock operation has been made
Advance(g, op) ==
    /\ goroutines' = [goroutines EXCEPT ![g].done = @ + 1]
    /\ reply' = Background(op)
    /\ UNCHANGED <<lockUnchanged, steps>>

\* Lock() would return now: sync.Mutex is free, sync.RWMutex has no holder at all
CanLock(mutex) ==
    IF mutex = "indexMutex" THEN indexMutex = RWUnlocked ELSE Mutexes[mutex] = Unlocked

\* RLock() would return now: no writer holds the sync.RWMutex
CanRLock == indexMutex.writer = ""

\* a goroutine starts a call
Call(g, call) ==
    /\ Budget
    /\ ~Running(g)
    /\ goroutines' = [goroutines EXCEPT ![g] = [call |-> call, done |-> 0]]
    /\ reply' = Background("Call")
    /\ UNCHANGED <<lockUnchanged, mutexes>>

Lock(g) ==
    /\ Running(g) /\ ~Finished(g)
    /\ NextLockOperation(g)[1] = "Lock"
    /\ LET mutex == NextLockOperation(g)[2]
       IN /\ CanLock(mutex)
          /\ IF mutex = "indexMutex"
             THEN SetMutexes([Mutexes EXCEPT !.indexMutex.writer = g])
             ELSE SetMutexes([Mutexes EXCEPT ![mutex] = g])
    /\ Advance(g, "Lock")

Unlock(g) ==
    /\ Running(g) /\ ~Finished(g)
    /\ NextLockOperation(g)[1] = "Unlock"
    /\ LET mutex == NextLockOperation(g)[2]
       IN IF mutex = "indexMutex"
          THEN SetMutexes([Mutexes EXCEPT !.indexMutex.writer = ""])
          ELSE SetMutexes([Mutexes EXCEPT ![mutex] = Unlocked])
    /\ Advance(g, "Unlock")

RLock(g) ==
    /\ Running(g) /\ ~Finished(g)
    /\ NextLockOperation(g)[1] = "RLock"
    /\ CanRLock
    /\ SetMutexes([Mutexes EXCEPT !.indexMutex.readers = @ \cup {g}])
    /\ Advance(g, "RLock")

RUnlock(g) ==
    /\ Running(g) /\ ~Finished(g)
    /\ NextLockOperation(g)[1] = "RUnlock"
    /\ SetMutexes([Mutexes EXCEPT !.indexMutex.readers = @ \ {g}])
    /\ Advance(g, "RUnlock")

\* the call returns
Return(g) ==
    /\ Running(g) /\ Finished(g)
    /\ goroutines' = [goroutines EXCEPT ![g] = NoCall]
    /\ reply' = Background("Return")
    /\ UNCHANGED <<lockUnchanged, mutexes, steps>>

\* the database just initialized: no call under way, every mutex free
LockInit ==
    /\ store = EmptyMap
    /\ expirationKeys = EmptyMap
    /\ valueIndex = EmptyMap
    /\ prefixIndex = EmptyMap
    /\ suffixIndex = EmptyMap
    /\ aofCommandsBuffer = <<>>
    /\ sweepPending = <<>>
    /\ aofFile = <<>>
    /\ snapshotFile = EmptyMap
    /\ indexFile = <<>>
    /\ now = 0
    /\ reply = Background("InitializeRedigo")
    /\ steps = 0
    /\ storeMutex = Unlocked
    /\ indexMutex = RWUnlocked
    /\ aofCommandsBufferMutex = Unlocked
    /\ aofMutex = Unlocked
    /\ goroutines = [g \in LockGoroutines |-> NoCall]
    /\ tempSnapshotFile = <<>>

LockNext ==
    \/ \E g \in LockGoroutines : \E call \in CallsOf(g) : Call(g, call)
    \/ \E g \in LockGoroutines : Lock(g)
    \/ \E g \in LockGoroutines : Unlock(g)
    \/ \E g \in LockGoroutines : RLock(g)
    \/ \E g \in LockGoroutines : RUnlock(g)
    \/ \E g \in LockGoroutines : Return(g)

LockSpec == LockInit /\ [][LockNext]_vars

\* ------------------------------------------------------------------ calls that meet an expired key
\* two clients beside the sweeper and the flusher
TtlGoroutines == {"client1", "client2", "sweeper", "flusher"}

\* the calls of a goroutine, GetTtl among those of a client
TtlCallsOf(g) ==
    IF g \in {"client1", "client2"}
    THEN {"GetTtl", "Set", "SearchByKeyContains"}
    ELSE CallsOf(g)

\* the goroutine makes its next lock operation or returns
GoroutineStep(g) == Lock(g) \/ Unlock(g) \/ RLock(g) \/ RUnlock(g) \/ Return(g)

TtlLockNext ==
    \/ \E g \in TtlGoroutines : \E call \in TtlCallsOf(g) : Call(g, call)
    \/ \E g \in TtlGoroutines : Lock(g)
    \/ \E g \in TtlGoroutines : Unlock(g)
    \/ \E g \in TtlGoroutines : RLock(g)
    \/ \E g \in TtlGoroutines : RUnlock(g)
    \/ \E g \in TtlGoroutines : Return(g)

\* the Go scheduler runs every goroutine that can run
TtlLockSpec ==
    /\ LockInit
    /\ [][TtlLockNext]_vars
    /\ \A g \in TtlGoroutines : WF_vars(GoroutineStep(g))

\* ------------------------------------------------------------------ properties
IndexedKeys(entries) == UNION {entries[indexKey] : indexKey \in DOMAIN entries}

InIndex(entries, indexKey, key) ==
    indexKey \in DOMAIN entries /\ key \in entries[indexKey]

\* what the claims call the state a call may change
apiState == <<store, expirationKeys, valueIndex, prefixIndex, suffixIndex, aofCommandsBuffer>>

\* C1: no entry of the value, prefix or suffix index holds a key that is absent
\* from the store.
C1_IndexKeysInStore ==
    /\ IndexedKeys(valueIndex) \subseteq DOMAIN store
    /\ IndexedKeys(prefixIndex) \subseteq DOMAIN store
    /\ IndexedKeys(suffixIndex) \subseteq DOMAIN store

\* C2: every key of the store is in the value-index entry of its value's
\* stringification, in the prefix-index entry of each of its prefixes and in the
\* suffix-index entry of each of its suffixes.
C2_StoreKeysIndexed ==
    \A k \in DOMAIN store :
        /\ InIndex(valueIndex, valueToString(store[k]), k)
        /\ \A i \in 1..Len(k) : InIndex(prefixIndex, SubSeq(k, 1, i), k)
        /\ \A i \in 1..Len(k) : InIndex(suffixIndex, SubSeq(k, i, Len(k)), k)

\* C3: every key that has a deadline in the expiration map is in the store.
C3_ExpirationKeysInStore == DOMAIN expirationKeys \subseteq DOMAIN store

\* a deadline restored by the replay of the AOF, its key in the store
C3_Witness ==
    /\ reply.op = "InitializeRedigo"
    /\ aofFile # <<>>
    /\ expirationKeys # EmptyMap
    /\ store # EmptyMap

\* C4: no entry of the three reverse indexes has an empty set of keys.
C4_NoEmptyIndexEntry ==
    /\ \A indexKey \in DOMAIN valueIndex : valueIndex[indexKey] # {}
    /\ \A indexKey \in DOMAIN prefixIndex : prefixIndex[indexKey] # {}
    /\ \A indexKey \in DOMAIN suffixIndex : suffixIndex[indexKey] # {}

\* deleting "aa" emptied the entries only it was in, which are gone, and left
\* the entries it shared with "a"
C4_Witness ==
    /\ reply.op = "Delete" /\ reply.result = "true" /\ reply.key = "aa"
    /\ "aa" \notin DOMAIN prefixIndex /\ "aa" \notin DOMAIN suffixIndex
    /\ InIndex(prefixIndex, "a", "a") /\ InIndex(suffixIndex, "a", "a")

\* C5: a set of a key that is in the store, its deadline passed or not, returns
\* KeyAlreadyExists and changes neither the store, the expiration map, the
\* indexes nor the AOF buffer.
C5_SetOfPresentKeyRefused ==
    [][(reply'.op = "Set" /\ reply'.key \in DOMAIN store)
        => (reply'.result = "KeyAlreadyExists" /\ UNCHANGED apiState)]_vars

\* a set refused for a key whose deadline has passed
C5_Witness ==
    /\ reply.op = "Set" /\ reply.result = "KeyAlreadyExists"
    /\ reply.key \in DOMAIN expirationKeys
    /\ expirationKeys[reply.key] < now

\* C6: a set of a value that is no string, int, bool or float returns
\* UnsupportedValueType and changes neither the store, the expiration map, the
\* indexes nor the AOF buffer.
C6_UnsupportedValueChangesNothing ==
    [][(reply'.op = "Set" /\ reply'.value.type \notin SupportedTypes /\ reply'.key \notin DOMAIN store)
        => (reply'.result = "UnsupportedValueType" /\ UNCHANGED apiState)]_vars

\* C7: a successful set was of an absent key; it maps the key to the value,
\* gives it the deadline now+ttl when ttl > 0 and none otherwise, puts it in the
\* three indexes and appends one SET record with the relative ttl and now.
C7_SuccessfulSet ==
    [][(reply'.op = "Set" /\ reply'.result = "OK") =>
        LET k == reply'.key
            v == reply'.value
            ttl == reply'.n
        IN /\ k \notin DOMAIN store
           /\ DOMAIN store' = DOMAIN store \cup {k}
           /\ store'[k] = v
           /\ \A j \in DOMAIN store : store'[j] = store[j]
           /\ IF ttl > 0
              THEN k \in DOMAIN expirationKeys' /\ expirationKeys'[k] = now + ttl
              ELSE k \notin DOMAIN expirationKeys'
           /\ InIndex(valueIndex', valueToString(v), k)
           /\ \A i \in 1..Len(k) : InIndex(prefixIndex', SubSeq(k, 1, i), k)
           /\ \A i \in 1..Len(k) : InIndex(suffixIndex', SubSeq(k, i, Len(k)), k)
           /\ aofCommandsBuffer' = Append(aofCommandsBuffer,
                  [name |-> "SET", key |-> k, value |-> v,
                   ttl |-> <<ttl>>, timestamp |-> now])
    ]_vars

\* a successful set with a ttl, in a store that held another key
C7_Witness ==
    /\ reply.op = "Set" /\ reply.result = "OK" /\ reply.n > 0
    /\ reply.key \in DOMAIN expirationKeys
    /\ DOMAIN store # {reply.key}

AppendsOne(op) ==
    /\ Len(aofCommandsBuffer') = Len(aofCommandsBuffer) + 1
    /\ SubSeq(aofCommandsBuffer', 1, Len(aofCommandsBuffer)) = aofCommandsBuffer
    /\ aofCommandsBuffer'[Len(aofCommandsBuffer')].name = op

\* C8: a successful set, a delete of a present key, a successful set_expiry and
\* each eviction of an expired key by get, get_ttl or the sweeper append exactly
\* one record; a call that changes neither the store nor the expiration map
\* appends none.
C8_OneRecordPerMutation ==
    [][/\ (reply'.op = "Set" /\ reply'.result = "OK") => AppendsOne("SET")
       /\ (reply'.op = "Delete" /\ reply'.result = "true") => AppendsOne("DELETE")
       /\ (reply'.op = "SetExpiry" /\ reply'.result = "true") => AppendsOne("EXPIRE")
       /\ (reply'.op \in {"Get", "GetTtl"} /\ reply'.key \in DOMAIN store \ DOMAIN store')
              => AppendsOne("DELETE")
       /\ reply'.op = "StartDataExpirationListener"
              => Len(sweepPending') = Cardinality(DOMAIN store \ DOMAIN store')
       /\ reply'.op = "SweeperLogCommand"
              => AppendsOne("DELETE") /\ Len(sweepPending') = Len(sweepPending) - 1
       /\ (/\ reply'.op \in ApiOps
           /\ ~(reply'.op = "SetExpiry" /\ reply'.result = "true")
           /\ UNCHANGED <<store, expirationKeys>>)
              => UNCHANGED aofCommandsBuffer
    ]_vars

\* C9: get of a key whose deadline is before now removes the key from the
\* store, the expiration map and the indexes, appends one DELETE record and
\* returns KeyExpired; otherwise it returns the value of a key in the store, or
\* KeyNotFound, and changes nothing.
C9_Get ==
    [][reply'.op = "Get" =>
        LET k == reply'.key
        IN IF k \in DOMAIN expirationKeys /\ expirationKeys[k] < now
           THEN /\ reply'.result = "KeyExpired"
                /\ k \notin DOMAIN store' /\ k \notin DOMAIN expirationKeys'
                /\ k \notin IndexedKeys(valueIndex')
                /\ k \notin IndexedKeys(prefixIndex')
                /\ k \notin IndexedKeys(suffixIndex')
                /\ aofCommandsBuffer' = Append(aofCommandsBuffer,
                       [name |-> "DELETE", key |-> k, value |-> NoValue,
                        ttl |-> <<>>, timestamp |-> now])
           ELSE /\ UNCHANGED apiState
                /\ IF k \in DOMAIN store
                   THEN reply'.result = "OK" /\ reply'.value = store[k]
                   ELSE reply'.result = "KeyNotFound"
    ]_vars

\* C10: delete of a key in the store removes it from the store, the expiration
\* map and the three indexes, appends one DELETE record and returns true, and
\* leaves every other key's value, deadline and index memberships as they were.
C10_DeleteOfPresentKey ==
    [][(reply'.op = "Delete" /\ reply'.key \in DOMAIN store) =>
        LET k == reply'.key
            Members(entries, j) == {indexKey \in DOMAIN entries : j \in entries[indexKey]}
        IN /\ reply'.result = "true"
           /\ k \notin DOMAIN store' /\ k \notin DOMAIN expirationKeys'
           /\ k \notin IndexedKeys(valueIndex')
           /\ k \notin IndexedKeys(prefixIndex')
           /\ k \notin IndexedKeys(suffixIndex')
           /\ aofCommandsBuffer' = Append(aofCommandsBuffer,
                  [name |-> "DELETE", key |-> k, value |-> NoValue,
                   ttl |-> <<>>, timestamp |-> now])
           /\ \A j \in Keys \ {k} :
                /\ (j \in DOMAIN store') = (j \in DOMAIN store)
                /\ j \in DOMAIN store => store'[j] = store[j]
                /\ (j \in DOMAIN expirationKeys') = (j \in DOMAIN expirationKeys)
                /\ j \in DOMAIN expirationKeys => expirationKeys'[j] = expirationKeys[j]
                /\ Members(valueIndex', j) = Members(valueIndex, j)
                /\ Members(prefixIndex', j) = Members(prefixIndex, j)
                /\ Members(suffixIndex', j) = Members(suffixIndex, j)
    ]_vars

\* the last record of the AOF buffer is a `name` record of `key`
LastRecordIs(name, key) ==
    /\ aofCommandsBuffer # <<>>
    /\ aofCommandsBuffer[Len(aofCommandsBuffer)].name = name
    /\ aofCommandsBuffer[Len(aofCommandsBuffer)].key = key

\* C11: a delete of a key that is not in the store, the second of two
\* consecutive deletes of one key among them, returns false and changes neither
\* the store, the expiration map, the indexes nor the AOF buffer.
C11_DeleteOfAbsentKey ==
    [][/\ (reply'.op = "Delete" /\ reply'.key \notin DOMAIN store)
            => (reply'.result = "false" /\ UNCHANGED apiState)
       /\ (reply.op = "Delete" /\ reply'.op = "Delete" /\ reply'.key = reply.key)
            => (reply'.result = "false" /\ UNCHANGED aofCommandsBuffer)
    ]_vars

\* the second delete of a key: refused, the record of the first the last one
C11_Witness ==
    /\ reply.op = "Delete" /\ reply.result = "false"
    /\ LastRecordIs("DELETE", reply.key)

\* C12: get_ttl returns (-1, false) for a key that is not in the store, (0, true)
\* for a key with no deadline, (deadline - now, true) with deadline - now > 0 for
\* a key whose deadline is after now, and for a key whose deadline is now or
\* earlier it removes the key from the store and the expiration map and returns
\* (-1, false).
C12_GetTtl ==
    [][reply'.op = "GetTtl" =>
        LET k == reply'.key
        IN IF k \notin DOMAIN store
           THEN reply'.n = -1 /\ reply'.result = "false"
           ELSE IF k \notin DOMAIN expirationKeys
           THEN reply'.n = 0 /\ reply'.result = "true"
           ELSE IF expirationKeys[k] > now
           THEN /\ reply'.n = expirationKeys[k] - now /\ reply'.n > 0
                /\ reply'.result = "true"
           ELSE /\ reply'.n = -1 /\ reply'.result = "false"
                /\ k \notin DOMAIN store' /\ k \notin DOMAIN expirationKeys'
    ]_vars

\* get_ttl found the key it reports absent past its deadline: the key was set
\* with a ttl, no record followed, and neither the sweeper nor a snapshot ran
C12_Witness ==
    /\ reply.op = "GetTtl" /\ reply.n = -1 /\ reply.result = "false"
    /\ LastRecordIs("SET", reply.key)
    /\ reply.key \notin DOMAIN store
    /\ sweepPending = <<>> /\ indexFile = <<>> /\ aofFile = <<>>

\* C13: set_expiry returns false and changes nothing for a key that is not in
\* the store; for seconds > 0 it sets the deadline to now + seconds, for
\* seconds = 0 it removes the deadline, in both cases appending one EXPIRE
\* record and returning true; for seconds < 0 it returns false and changes
\* nothing. A get_ttl that follows a set_expiry of 0 seconds returns (0, true).
C13_SetExpiry ==
    [][/\ reply'.op = "SetExpiry" =>
            LET k == reply'.key
                seconds == reply'.n
            IN IF k \notin DOMAIN store \/ seconds < 0
               THEN reply'.result = "false" /\ UNCHANGED apiState
               ELSE /\ reply'.result = "true"
                    /\ IF seconds > 0
                       THEN /\ k \in DOMAIN expirationKeys'
                            /\ expirationKeys'[k] = now + seconds
                       ELSE k \notin DOMAIN expirationKeys'
                    /\ \A j \in Keys \ {k} :
                          /\ (j \in DOMAIN expirationKeys') = (j \in DOMAIN expirationKeys)
                          /\ j \in DOMAIN expirationKeys => expirationKeys'[j] = expirationKeys[j]
                    /\ UNCHANGED <<store, valueIndex, prefixIndex, suffixIndex>>
                    /\ aofCommandsBuffer' = Append(aofCommandsBuffer,
                           [name |-> "EXPIRE", key |-> k,
                            value |-> FloatValue(seconds * 10),
                            ttl |-> <<>>, timestamp |-> now])
       /\ (/\ reply.op = "SetExpiry" /\ reply.result = "true" /\ reply.n = 0
           /\ reply'.op = "GetTtl" /\ reply'.key = reply.key)
            => (reply'.n = 0 /\ reply'.result = "true")
    ]_vars

\* a get_ttl of a key whose deadline the last record, an EXPIRE of 0 seconds,
\* removed
C13_Witness ==
    /\ reply.op = "GetTtl" /\ reply.n = 0 /\ reply.result = "true"
    /\ LastRecordIs("EXPIRE", reply.key)
    /\ aofCommandsBuffer[Len(aofCommandsBuffer)].value.value = 0
    /\ Len(aofCommandsBuffer) > 1
    /\ aofCommandsBuffer[Len(aofCommandsBuffer) - 1].key = reply.key
    /\ aofCommandsBuffer[Len(aofCommandsBuffer) - 1].ttl = <<1>>

\* C14: once get has returned KeyExpired for a key, a search by value, by key
\* prefix or by key suffix does not return that key: here the search that
\* follows the get.
C14_ExpiredKeyNotFoundBySearch ==
    [][(/\ reply.op = "Get" /\ reply.result = "KeyExpired"
        /\ reply'.op \in {"SearchByValue", "SearchByKeyPrefix", "SearchByKeySuffix"})
            => reply.key \notin reply'.keys
    ]_vars

StartsWith(key, p) == Len(p) <= Len(key) /\ SubSeq(key, 1, Len(p)) = p

EndsWith(key, s) == Len(s) <= Len(key) /\ SubSeq(key, Len(key) - Len(s) + 1, Len(key)) = s

\* a search for one of `texts` returns exactly the keys of the store whose value
\* stringifies to it, that start with it or that end with it, and changes no state
SearchesMatchStore(texts) ==
    /\ reply'.op = "SearchByValue"
            => reply'.keys = {k \in DOMAIN store : valueToString(store[k]) = reply'.key}
    /\ (reply'.op = "SearchByKeyPrefix" /\ reply'.key \in texts)
            => reply'.keys = {k \in DOMAIN store : StartsWith(k, reply'.key)}
    /\ (reply'.op = "SearchByKeySuffix" /\ reply'.key \in texts)
            => reply'.keys = {k \in DOMAIN store : EndsWith(k, reply'.key)}
    /\ reply'.op \in {"SearchByValue", "SearchByKeyPrefix", "SearchByKeySuffix"}
            => UNCHANGED apiState

\* C15: after successful sets and deletes, search_by_value(v) returns exactly
\* the keys of the store whose value stringifies to v, search_by_key_prefix(p)
\* exactly those that start with p and search_by_key_suffix(s) exactly those that
\* end with s, and a search changes no state.
C15_SearchesMatchStore == [][SearchesMatchStore(Queries)]_vars

\* C15, for a prefix and a suffix that are not the empty string: the same; a
\* search for the empty prefix or the empty suffix returns no key.
C15_SearchesOfNonEmptyTextMatchStore ==
    [][/\ SearchesMatchStore(Queries \ {""})
       /\ (reply'.op \in {"SearchByKeyPrefix", "SearchByKeySuffix"} /\ reply'.key = "")
            => reply'.keys = {}
    ]_vars

\* "a" and "aa" were set to the same value, "a" was deleted, and the search for
\* the value returned "aa" alone
C15_Witness ==
    /\ reply.op = "SearchByValue" /\ reply.keys = {"aa"}
    /\ LastRecordIs("DELETE", "a")
    /\ Len(aofCommandsBuffer) = 3
    /\ aofCommandsBuffer[1].value = aofCommandsBuffer[2].value

\* sub occurs in key
IsSubstring(sub, key) ==
    \E i \in 0..Len(key) : \E j \in i..Len(key) : SubSeq(key, i + 1, j) = sub

\* C16: search_by_key_contains(sub) returns exactly the keys of the store that
\* contain sub, and changes no state.
C16_SearchByKeyContains ==
    [][reply'.op = "SearchByKeyContains" =>
        /\ reply'.keys = {k \in DOMAIN store : IsSubstring(reply'.key, k)}
        /\ UNCHANGED apiState
    ]_vars

\* a search for "aa" that returned "aa" and left out "a", which is in the store
C16_Witness ==
    /\ reply.op = "SearchByKeyContains" /\ reply.key = "aa"
    /\ reply.keys = {"aa"}
    /\ "a" \in DOMAIN store

\* the database that the replay, at time now, of the records of the AOF buffer
\* builds from an empty one
ReplayOfBuffer ==
    processAofCommands(Db(EmptyMap, EmptyMap),
                       writeCommandsToAof(<<>>, aofCommandsBuffer), now)

\* db without the keys whose deadline is now or earlier: a key that a replay
\* drops and that the calls have not evicted yet is no difference
Unexpired(db) ==
    LET keys == {k \in DOMAIN db.store :
                    k \notin DOMAIN db.expirationKeys \/ db.expirationKeys[k] > now}
    IN Db([k \in keys |-> db.store[k]],
          [k \in keys \cap DOMAIN db.expirationKeys |-> db.expirationKeys[k]])

\* C17: the replay into an empty store of the records that a sequence of Command
\* API calls emitted yields the store and the expiration map, with the same
\* absolute deadlines, that the calls left.
C17_ReplayEquivalence == Unexpired(ReplayOfBuffer) = Unexpired(CurrentDb)

\* C18: the store loaded from the snapshot that update_snapshot wrote of a
\* store of strings, ints, bools and floats has the same keys and, for each
\* key, the same value of the same type.
C18_SnapshotRoundTrip ==
    [][(/\ reply.op = "UpdateSnapshot" /\ reply'.op = "InitializeRedigo"
        /\ \A k \in DOMAIN store : store[k].type \in SupportedTypes)
            => store' = store
    ]_vars

\* the AOF is one SET record with a ttl > 0
OneSetWithTtl ==
    /\ Len(aofFile) = 1
    /\ aofFile[1].name = "SET"
    /\ aofFile[1].ttl # <<>>
    /\ aofFile[1].ttl[1] > 0

\* C19: the replay at time now of a SET record with ttl > 0 leaves the key out
\* of the store and the expiration map when timestamp + ttl <= now, and otherwise
\* leaves it in the store with the deadline timestamp + ttl; get_ttl at a time t
\* then returns timestamp + ttl - t while that is positive, and (-1, false) after.
C19_ReplayOfSetWithTtl ==
    [][OneSetWithTtl =>
        LET k == aofFile[1].key
            deadline == aofFile[1].timestamp + aofFile[1].ttl[1]
        IN /\ reply'.op = "LoadFromAof" =>
                IF deadline <= now
                THEN k \notin DOMAIN store' /\ k \notin DOMAIN expirationKeys'
                ELSE /\ k \in DOMAIN store' /\ k \in DOMAIN expirationKeys'
                     /\ expirationKeys'[k] = deadline
           /\ (reply'.op = "GetTtl" /\ reply'.key = k) =>
                /\ IF deadline > now
                   THEN reply'.n = deadline - now /\ reply'.result = "true"
                   ELSE reply'.n = -1 /\ reply'.result = "false"
                /\ deadline <= now => k \notin DOMAIN store'
    ]_vars

\* a SET replayed later than its timestamp, and get_ttl returning what is left
C19_Witness ==
    /\ OneSetWithTtl
    /\ reply.op = "GetTtl" /\ reply.key = aofFile[1].key
    /\ now > aofFile[1].timestamp
    /\ reply.n = aofFile[1].timestamp + aofFile[1].ttl[1] - now
    /\ reply.n > 0

\* the AOF is a SET of a key and then a DELETE of that key
SetThenDelete ==
    /\ Len(aofFile) = 2
    /\ aofFile[1].name = "SET"
    /\ aofFile[2].name = "DELETE"
    /\ aofFile[2].key = aofFile[1].key

\* C20: the replay of a SET of a key followed by a DELETE of that key, at a
\* time not earlier than the two records, leaves the store and the expiration
\* map empty.
C20_ReplayOfSetThenDelete ==
    [][(reply'.op = "LoadFromAof" /\ SetThenDelete)
            => (store' = EmptyMap /\ expirationKeys' = EmptyMap)
    ]_vars

\* a SET whose deadline is after the replay, and its DELETE, replayed
C20_Witness ==
    /\ reply.op = "LoadFromAof"
    /\ SetThenDelete
    /\ aofFile[1].ttl # <<>>
    /\ aofFile[1].timestamp + aofFile[1].ttl[1] > now
    /\ store = EmptyMap /\ expirationKeys = EmptyMap

\* C21: in the state UpdateSnapshot returns nil in, the AOF file is empty
C21_AofEmptyWhenSnapshotReturns ==
    (reply.op = "UpdateSnapshot" /\ reply.result = "nil") => aofFile = <<>>

\* C22: UpdateSnapshot truncates the AOF only once its rename has put the
\* data it serialized in the snapshot file; when write_temp_file or
\* atomic_rename fails it returns an error and that step changes neither the
\* snapshot file nor the AOF
C22_TruncateOnlyAfterRename ==
    [][/\ reply'.op = "truncate_aof" =>
            /\ goroutines["snapshot"].pc = "truncate_aof"
            /\ snapshotFile = goroutines["snapshot"].jsonData
       /\ (/\ goroutines["snapshot"].pc \in {"write_temp_file", "atomic_rename"}
           /\ reply'.op = "UpdateSnapshot") =>
            /\ reply'.result = "failed to " \o goroutines["snapshot"].pc
            /\ snapshotFile' = snapshotFile
            /\ aofFile' = aofFile]_vars

\* the rename has just failed: the old snapshot and the AOF are there, and the
\* temporary file holds other data than the snapshot
C22_Witness ==
    /\ reply.op = "UpdateSnapshot"
    /\ reply.result = "failed to atomic_rename"
    /\ snapshotFile # EmptyMap
    /\ aofFile # <<>>
    /\ tempSnapshotFile # <<snapshotFile>>

\* C23: the file the rename installs is the store as it is under the store
\* mutex, and from serialization to truncation no step but a crash changes
\* the store
C23_SnapshotOfLockedStore ==
    [][/\ reply'.op = "atomic_rename" =>
            snapshotFile' = [k \in DOMAIN store |-> JsonMarshal(store[k])]
       /\ (/\ goroutines["snapshot"].pc \in {"write_temp_file", "atomic_rename", "truncate_aof"}
           /\ reply'.op # "Crash") =>
            /\ store' = store
            /\ reply'.op \notin ApiOps]_vars

\* a snapshot of two keys has just been installed
C23_Witness ==
    /\ reply.op = "atomic_rename"
    /\ DOMAIN snapshotFile = Keys
    /\ DOMAIN store = Keys

\* C24: once the sweeper has evicted keys, no record is appended to the buffer
\* ahead of the DELETE records of those keys
C24_SweeperRecordsInStoreOrder ==
    [][(sweepPending # <<>> /\ Len(aofCommandsBuffer') > Len(aofCommandsBuffer)) =>
            reply'.op = "SweeperLogCommand"]_vars

\* C27: the AOF is never truncated between the writes of two commands of one
\* flush batch
C27_NoTruncateInsideBatch ==
    [][reply'.op = "truncate_aof" =>
            ~(/\ goroutines["flusher"].pc = "write"
              /\ goroutines["flusher"].written > 0
              /\ goroutines["flusher"].written < Len(goroutines["flusher"].batch))]_vars

\* the lines json.Marshal makes of the commands
Marshalled(commands) == [i \in 1..Len(commands) |-> MarshalCommand(commands[i])]

\* the commands of the flusher's batch not yet written
Unwritten(flusher) == SubSeq(flusher.batch, flusher.written + 1, Len(flusher.batch))

\* every record appended so far, in order: in the file, in the batch, in the buffer
Log ==
    aofFile \o Marshalled(Unwritten(goroutines["flusher"])) \o Marshalled(aofCommandsBuffer)

\* C28: while no write fails, a step leaves the sequence of records in the
\* file, the batch and the buffer as it is or appends one record to it
C28_EachRecordOnceInOrder ==
    [][(goroutines["flusher"].err = "" /\ goroutines'["flusher"].err = "") =>
            \/ Log' = Log
            \/ /\ Len(Log') = Len(Log) + 1
               /\ SubSeq(Log', 1, Len(Log)) = Log]_vars

\* a Set has appended its record while the flusher stands between the two
\* writes of a batch
C28_Witness ==
    /\ reply.op = "Set"
    /\ reply.result = "OK"
    /\ goroutines["flusher"].pc = "write"
    /\ goroutines["flusher"].written = 1
    /\ Len(goroutines["flusher"].batch) = 2
    /\ Len(aofCommandsBuffer) = 1

\* the last n lines of the AOF file
LastLines(n) == SubSeq(aofFile, Len(aofFile) - n + 1, Len(aofFile))

\* C29: the lines a flush has written are the first commands of its batch;
\* after a failed write the flush writes nothing more, returns the error and
\* leaves the buffer as it is
C29_FailedFlush ==
    [][LET flusher == goroutines["flusher"]
       IN /\ flusher.pc = "write" =>
                /\ flusher.written <= Len(aofFile)
                /\ LastLines(flusher.written) =
                        Marshalled(SubSeq(flusher.batch, 1, flusher.written))
          /\ flusher.err # "" =>
                /\ aofFile' = aofFile
                /\ reply'.op = "FlushBuffer" =>
                        /\ reply'.result = flusher.err
                        /\ aofCommandsBuffer' = aofCommandsBuffer]_vars

\* a flush has returned the error of its second write
C29_Witness ==
    /\ reply.op = "FlushBuffer"
    /\ reply.result # "nil"
    /\ Len(aofFile) = 1
    /\ aofCommandsBuffer = <<>>

\* C30: a restart after a crash between atomic_rename and truncate_aof ends
\* with the store that loading the snapshot alone gives
C30_CrashBeforeTruncate ==
    [][(reply'.op = "Crash" /\ goroutines["snapshot"].pc = "truncate_aof") =>
            store' = LoadFromSnapshot(snapshotFile)]_vars

\* a line that replay applies: JSON, of a known command, with a value that
\* deserializes
WellFormed(line) ==
    /\ JsonValid(line)
    /\ line.name \in {"SET", "DELETE", "EXPIRE"}
    /\ line.name = "SET" => DeserializeCommandValue(line.value).ok
    /\ line.name = "EXPIRE" => parseExpirationSeconds(line.value).ok

\* C25: the replay of a file with bad lines leaves what the replay of its
\* well-formed lines alone, in the same order, leaves
C25_BadRecordsSkipped ==
    reply.op = "LoadFromAof" =>
        CurrentDb = ForEachLine(Db(EmptyMap, EmptyMap), SelectSeq(aofFile, WellFormed), now)

\* the goroutine's call stands at a Lock or an RLock that cannot return
Blocked(g) ==
    /\ Running(g) /\ ~Finished(g)
    /\ \/ NextLockOperation(g)[1] = "Lock" /\ ~CanLock(NextLockOperation(g)[2])
       \/ NextLockOperation(g)[1] = "RLock" /\ ~CanRLock

\* C26: while calls are under way, one of them can go on
C26_DeadlockFree ==
    (\E g \in LockGoroutines : Running(g)) =>
        \E g \in LockGoroutines : Running(g) /\ ~Blocked(g)

\* the last line of the AOF is an EXPIRE record
LastIsExpire == aofFile[Len(aofFile)].name = "EXPIRE"

\* the database the replay of all lines but the last makes
BeforeLast == ForEachLine(Db(EmptyMap, EmptyMap), SubSeq(aofFile, 1, Len(aofFile) - 1), now)

\* C31: the replay at time now of an EXPIRE record of s seconds and timestamp
\* ts changes nothing when its key is absent; otherwise, with remaining =
\* s - (now - ts), it sets the deadline now + remaining = ts + s when
\* remaining > 0 and else removes the key from the store and the expiration map
C31_ReplayOfExpire ==
    (reply.op = "LoadFromAof" /\ LastIsExpire) =>
        LET record == aofFile[Len(aofFile)]
            k == record.key
            s == TruncateToInt(record.value.value.value)
            remaining == s - (now - record.timestamp)
        IN IF k \notin DOMAIN BeforeLast.store
           THEN CurrentDb = BeforeLast
           ELSE IF remaining > 0
           THEN /\ store = BeforeLast.store
                /\ expirationKeys = MapSet(BeforeLast.expirationKeys, k, now + remaining)
                /\ expirationKeys[k] = record.timestamp + s
           ELSE /\ store = MapDelete(BeforeLast.store, k)
                /\ expirationKeys = MapDelete(BeforeLast.expirationKeys, k)

\* an EXPIRE replayed later than its timestamp has set what is left of its seconds
C31_Witness ==
    /\ reply.op = "LoadFromAof"
    /\ Len(aofFile) = 2
    /\ LastIsExpire
    /\ aofFile[2].key \in DOMAIN expirationKeys
    /\ now > aofFile[2].timestamp
    /\ expirationKeys[aofFile[2].key] > now

\* the AOF of a Set of a key and of a later SetExpiry(key, 0) that found it live
SetThenClearedDeadline ==
    /\ Len(aofFile) = 2
    /\ aofFile[1].name = "SET"
    /\ aofFile[2].name = "EXPIRE"
    /\ aofFile[2].key = aofFile[1].key
    /\ TruncateToInt(aofFile[2].value.value.value) = 0
    /\ \/ aofFile[1].ttl[1] = 0
       \/ aofFile[1].timestamp + aofFile[1].ttl[1] > aofFile[2].timestamp

\* C38: the replay of a Set and of the SetExpiry(key, 0) that cleared its
\* deadline leaves the key in the store with no deadline
C38_ClearedDeadlineIsDurable ==
    (reply.op = "LoadFromAof" /\ SetThenClearedDeadline) =>
        /\ aofFile[1].key \in DOMAIN store
        /\ aofFile[1].key \notin DOMAIN expirationKeys

\* C32: when start-up recovery has finished, every key of the store is indexed
\* under its value, its prefixes and its suffixes, and the indexes name no key
\* that the store lacks
C32_IndexesAfterRecovery ==
    (reply.op = "InitializeRedigo" /\ steps > 0) =>
        /\ IndexedKeys(valueIndex) \cup IndexedKeys(prefixIndex) \cup IndexedKeys(suffixIndex)
                \subseteq DOMAIN store
        /\ \A k \in DOMAIN store :
                /\ InIndex(valueIndex, valueToString(store[k]), k)
                /\ \A i \in 1..Len(k) : InIndex(prefixIndex, SubSeq(k, 1, i), k)
                /\ \A i \in 1..Len(k) : InIndex(suffixIndex, SubSeq(k, i, Len(k)), k)

\* C33: UpdateSnapshot removes each key whose deadline is at or before now from
\* the store and the expiration map and keeps it out of the snapshot; each other
\* key stays in the store and is written to the snapshot
C33_SnapshotEviction ==
    [][reply'.op = "UpdateSnapshot" =>
        \A k \in DOMAIN store :
            IF k \in DOMAIN expirationKeys /\ expirationKeys[k] <= now
            THEN /\ k \notin DOMAIN store'
                 /\ k \notin DOMAIN expirationKeys'
                 /\ k \notin DOMAIN snapshotFile'
            ELSE /\ k \in DOMAIN store'
                 /\ k \in DOMAIN snapshotFile']_vars

\* C37: after UpdateSnapshot and then a restart, a key that had a deadline is
\* absent or has that deadline still
C37_DeadlineSurvivesRestart ==
    [][(reply.op = "UpdateSnapshot" /\ reply'.op = "InitializeRedigo") =>
        \A k \in DOMAIN store \cap DOMAIN expirationKeys :
            \/ k \notin DOMAIN store'
            \/ /\ k \in DOMAIN expirationKeys'
               /\ expirationKeys'[k] = expirationKeys[k]]_vars

\* Get called now would return the value of the key
GetReturnsValue(key) == ENABLED (Get(key) /\ reply'.result = "OK")

\* GetTtl called now would report that the key exists
GetTtlReportsExists(key) == ENABLED (GetTtl(key) /\ reply'.result = "true")

\* C39: in every state and for every key with a deadline, Get would return the
\* value exactly when GetTtl would report exists = true
C39_GetAndGetTtlAgree ==
    \A key \in DOMAIN expirationKeys : GetReturnsValue(key) <=> GetTtlReportsExists(key)

\* C35: a Command API call or a search leaves the AOF file and the snapshot
\* file as they are, and only FlushBuffer and UpdateSnapshot change the AOF file
C35_ApiLeavesFilesAlone ==
    [][/\ reply'.op \in ApiOps \cup SearchOps =>
            aofFile' = aofFile /\ snapshotFile' = snapshotFile
       /\ aofFile' # aofFile => reply'.op \in {"FlushBuffer", "UpdateSnapshot"}]_vars

\* a Delete has removed a key while both files held data
C35_Witness ==
    /\ reply.op = "Delete"
    /\ reply.result = "true"
    /\ aofFile # <<>>
    /\ snapshotFile # EmptyMap

\* C36: closing the engine writes every record still in the AOF buffer to
\* the AOF file
C36_CloseWritesTheBuffer ==
    [][reply'.op = "CloseAof" =>
          aofFile' = writeCommandsToAof(aofFile, aofCommandsBuffer)]_vars

\* the keys a step took out of the store or the expiration map
removedKeys ==
    (DOMAIN store \ DOMAIN store') \cup (DOMAIN expirationKeys \ DOMAIN expirationKeys')

\* the deadline of the key has passed
Overdue(key) == key \in DOMAIN expirationKeys /\ now > expirationKeys[key]

MeetsExpiredKey(g) ==
    /\ goroutines[g].call \in {"GetTtl", "StartDataExpirationListener"}
    /\ storeMutex = g

====
